---- MODULE Spec2Model ----
(***************************************************************************)
(* variant_core: the Variant / VCFReader and Region / BEDReader pairs.     *)
(*                                                                         *)
(* A Python str is modelled as a sequence of one-character strings, so     *)
(* that strip, split, upper, int() and float() are computed character by   *)
(* character as the interpreter computes them.  The character set is       *)
(* ASCII; float values are exact decimals (inputs stay far inside the      *)
(* range of a double, where the sign, zero-ness and NaN-ness of the parsed *)
(* value are those of the decimal).                                        *)
(***************************************************************************)
EXTENDS Integers, Sequences, FiniteSets, TLC

VARIABLES fs, readers, gens, handles, call

vars == <<fs, readers, gens, handles, call>>

(***************************************************************************)
(* Bounds of the model.                                                    *)
(***************************************************************************)
\* lines in a file
MaxLines == 3

\* reader objects constructed over the directory (SpecShared)
MaxReaders == 2

\* generators obtained from the readers of the directory (SpecShared)
MaxIters == 2

\* generators obtained from the one reader of Spec
RunIters == 1

\* characters in the alt argument of a direct Variant(...) call
MaxAlleleLen == 3

(***************************************************************************)
(* str primitives                                                          *)
(***************************************************************************)
TAB == "\t"

NL == "\n"

\* the characters str.strip() removes (ASCII whitespace)
Whitespace == {" ", TAB, NL, "\r", "\f"}

Digits == <<"0", "1", "2", "3", "4", "5", "6", "7", "8", "9">>

LowerLetters == <<"a", "b", "c", "d", "e", "f", "g", "h", "i", "j", "k", "l", "m",
                  "n", "o", "p", "q", "r", "s", "t", "u", "v", "w", "x", "y", "z">>

UpperLetters == <<"A", "B", "C", "D", "E", "F", "G", "H", "I", "J", "K", "L", "M",
                  "N", "O", "P", "Q", "R", "S", "T", "U", "V", "W", "X", "Y", "Z">>

IsDigit(c) == \E i \in 1..10 : Digits[i] = c

DigitVal(c) == (CHOOSE i \in 1..10 : Digits[i] = c) - 1

\* str.upper() on one character
UpperChar(c) ==
    IF \E i \in 1..26 : LowerLetters[i] = c
    THEN UpperLetters[CHOOSE i \in 1..26 : LowerLetters[i] = c]
    ELSE c

\* str.lower() on one character
LowerChar(c) ==
    IF \E i \in 1..26 : UpperLetters[i] = c
    THEN LowerLetters[CHOOSE i \in 1..26 : UpperLetters[i] = c]
    ELSE c

Upper(s) == [i \in 1..Len(s) |-> UpperChar(s[i])]

Lower(s) == [i \in 1..Len(s) |-> LowerChar(s[i])]

\* s[i:] with a 0-based Python index i >= 0
From(s, i) == SubSeq(s, i + 1, Len(s))

\* s.startswith(p)
StartsWith(s, p) == Len(s) >= Len(p) /\ SubSeq(s, 1, Len(p)) = p

\* s.strip()
Strip(s) ==
    LET keep == {i \in 1..Len(s) : s[i] \notin Whitespace}
    IN  IF keep = {} THEN <<>>
        ELSE LET lo == CHOOSE i \in keep : \A j \in keep : i <= j
                 hi == CHOOSE i \in keep : \A j \in keep : i >= j
             IN  SubSeq(s, lo, hi)

\* s.split(sep) for a one-character separator: one more field than there are
\* separators, the k-th field lying between the (k-1)-th and the k-th separator
Split(s, sep) ==
    LET at     == {i \in 1..Len(s) : s[i] = sep}
        nth(k) == CHOOSE i \in at : Cardinality({j \in at : j < i}) = k - 1
        lo(k)  == IF k = 1 THEN 1 ELSE nth(k - 1) + 1
        hi(k)  == IF k = Cardinality(at) + 1 THEN Len(s) ELSE nth(k) - 1
    IN  [k \in 1..(Cardinality(at) + 1) |-> SubSeq(s, lo(k), hi(k))]

\* sep.join(fields): used to write the input lines, not by the program
RECURSIVE Join(_, _)
Join(fields, sep) ==
    IF Len(fields) = 0 THEN <<>>
    ELSE IF Len(fields) = 1 THEN fields[1]
    ELSE fields[1] \o <<sep>> \o Join(Tail(fields), sep)

(***************************************************************************)
(* int(str) and float(str)                                                 *)
(***************************************************************************)
\* a run of decimal digits in which single underscores may separate digits
IsDigitRun(s) ==
    /\ Len(s) >= 1
    /\ IsDigit(s[1])
    /\ IsDigit(s[Len(s)])
    /\ \A i \in 1..Len(s) : IsDigit(s[i]) \/ s[i] = "_"
    /\ \A i \in 1..(Len(s) - 1) : ~(s[i] = "_" /\ s[i + 1] = "_")

\* the value of the digits among the first n characters of s
RECURSIVE NatUpTo(_, _)
NatUpTo(s, n) ==
    IF n = 0 THEN 0
    ELSE IF s[n] = "_" THEN NatUpTo(s, n - 1)
    ELSE 10 * NatUpTo(s, n - 1) + DigitVal(s[n])

NatOf(s) == NatUpTo(s, Len(s))

HasSign(t) == Len(t) >= 1 /\ t[1] \in {"+", "-"}

Unsigned(t) == IF HasSign(t) THEN Tail(t) ELSE t

\* int(s): surrounding whitespace, an optional sign, a digit run
ParseInt(s) ==
    LET t    == Strip(s)
        body == Unsigned(t)
    IN  IF IsDigitRun(body)
        THEN [ok |-> TRUE,
              val |-> IF HasSign(t) /\ t[1] = "-" THEN 0 - NatOf(body) ELSE NatOf(body)]
        ELSE [ok |-> FALSE, val |-> 0]

\* Optional[float] values: None, nan, +-inf, or the decimal (-1)^neg * num * 10^exp
None == [cls |-> "None", neg |-> FALSE, num |-> 0, exp |-> 0]

NaN == [cls |-> "nan", neg |-> FALSE, num |-> 0, exp |-> 0]

Inf(neg) == [cls |-> "inf", neg |-> neg, num |-> 0, exp |-> 0]

RECURSIVE Fin(_, _, _)
Fin(neg, num, exp) ==
    IF num = 0 THEN [cls |-> "fin", neg |-> neg, num |-> 0, exp |-> 0]
    ELSE IF num % 10 = 0 THEN Fin(neg, num \div 10, exp + 1)
    ELSE [cls |-> "fin", neg |-> neg, num |-> num, exp |-> exp]

\* x < 0 for a float x: false for nan and for both zeros
FloatLtZero(x) ==
    /\ x.cls \in {"inf", "fin"}
    /\ x.neg
    /\ (x.cls = "inf" \/ x.num > 0)

\* x >= 0 for a float x: false for nan
FloatGeZero(x) ==
    /\ x.cls \in {"inf", "fin"}
    /\ (~x.neg \/ (x.cls = "fin" /\ x.num = 0))

FirstIndex(s, cs) ==
    LET at == {i \in 1..Len(s) : s[i] \in cs}
    IN  IF at = {} THEN 0 ELSE CHOOSE k \in at : \A j \in at : k <= j

\* float(s): whitespace, sign, then inf / infinity / nan in any case, or
\* digits [. digits] [e [sign] digits] with at least one mantissa digit
ParseFloat(s) ==
    LET t    == Strip(s)
        neg  == HasSign(t) /\ t[1] = "-"
        body == Unsigned(t)
        low  == Lower(body)
        e    == FirstIndex(body, {"e", "E"})
        mant == IF e = 0 THEN body ELSE SubSeq(body, 1, e - 1)
        expt == IF e = 0 THEN <<>> ELSE SubSeq(body, e + 1, Len(body))
        dot  == FirstIndex(mant, {"."})
        ip   == IF dot = 0 THEN mant ELSE SubSeq(mant, 1, dot - 1)
        fp   == IF dot = 0 THEN <<>> ELSE SubSeq(mant, dot + 1, Len(mant))
        fpd  == SelectSeq(fp, IsDigit)
        mantOk == /\ (Len(ip) = 0 \/ IsDigitRun(ip))
                  /\ (Len(fp) = 0 \/ IsDigitRun(fp))
                  /\ Len(ip) + Len(fp) >= 1
        expOk  == e = 0 \/ IsDigitRun(Unsigned(expt))
        expVal == IF e = 0 THEN 0
                  ELSE IF HasSign(expt) /\ expt[1] = "-" THEN 0 - NatOf(Unsigned(expt))
                  ELSE NatOf(Unsigned(expt))
    IN  IF low \in {<<"i", "n", "f">>, <<"i", "n", "f", "i", "n", "i", "t", "y">>}
        THEN [ok |-> TRUE, val |-> Inf(neg)]
        ELSE IF low = <<"n", "a", "n">>
        THEN [ok |-> TRUE, val |-> NaN]
        ELSE IF mantOk /\ expOk
        THEN [ok |-> TRUE, val |-> Fin(neg, NatOf(ip \o fpd), expVal - Len(fpd))]
        ELSE [ok |-> FALSE, val |-> None]

(***************************************************************************)
(* Variant (vcf.py) and Region (bed.py)                                    *)
(***************************************************************************)
\* what a call returns: a value, or the exception that left it
Returned(v) == [exc |-> "none", msg |-> "", val |-> v]

Raised(exc, msg) == [exc |-> exc, msg |-> msg, val |-> <<>>]

\* valid_bases = set("GTCAN.,")
valid_bases == {"G", "T", "C", "A", "N", ".", ","}

\* faulty variant: the comma is missing from valid_bases
Variant_base_validation_NoComma(self) ==
    LET bases == Upper(self.ref \o self.alt)
    IN  IF \E i \in 1..Len(bases) : bases[i] \notin (valid_bases \ {","})
        THEN Raised("ValueError", "Invalid base in ref/alt")
        ELSE Returned(<<>>)

\* Variant._base_validation: no character of (ref + alt).upper() outside valid_bases
Variant_base_validation(self) ==
    LET bases == Upper(self.ref \o self.alt)
    IN  IF \E i \in 1..Len(bases) : bases[i] \notin valid_bases
        THEN Raised("ValueError", "Invalid base in ref/alt")
        ELSE Returned(<<>>)

\* faulty variant: the position check is off by one (pos < 0)
Variant_post_init_PosOffByOne(self) ==
    IF self.qual # None /\ FloatLtZero(self.qual)
    THEN Raised("ValueError", "Quality must not be negative")
    ELSE IF self.pos < 0
    THEN Raised("ValueError", "Position must be >= 1")
    ELSE Variant_base_validation(self)

\* Variant.__post_init__: the quality check, the position check, the base check
Variant_post_init(self) ==
    IF self.qual # None /\ FloatLtZero(self.qual)
    THEN Raised("ValueError", "Quality must not be negative")
    ELSE IF self.pos < 1
    THEN Raised("ValueError", "Position must be >= 1")
    ELSE Variant_base_validation(self)

\* Variant(...): the dataclass stores the fields as given, then __post_init__ runs
Variant(chrom, pos, id, ref, alt, qual, filter, info, format_fields, samples) ==
    LET self == [chrom |-> chrom, pos |-> pos, id |-> id, ref |-> ref, alt |-> alt,
                 qual |-> qual, filter |-> filter, info |-> info,
                 format_fields |-> format_fields, samples |-> samples]
        chk  == Variant_post_init(self)
    IN  IF chk.exc # "none" THEN chk ELSE Returned(self)

\* Variant.is_snp
is_snp(self) == Len(self.ref) = 1 /\ Len(self.alt) = 1

\* Region(...): a plain frozen dataclass, no validation
Region(chrom, start, end, name) ==
    Returned([chrom |-> chrom, start |-> start, end |-> end, name |-> name])

(***************************************************************************)
(* VCFReader._parse_line and BEDReader._parse_line                         *)
(***************************************************************************)
\* fields[i] with a 0-based Python index
Item(fields, i) == fields[i + 1]

\* The keyword arguments of Variant(...) are evaluated in source order:
\* int(fields[1]), float(fields[5]), fields[8] (IndexError when the line has
\* exactly 8 columns), and only then does the constructor validate.
VCFReader_parse_line(line) ==
    LET fields == Split(Strip(line), TAB)
        pos    == ParseInt(Item(fields, 1))
        isNone == Item(fields, 5) = <<".">>
        qual   == ParseFloat(Item(fields, 5))
    IN  IF Len(fields) < 8
        THEN Raised("ValueError", "Insufficient columns")
        ELSE IF ~pos.ok
        THEN Raised("ValueError", "invalid literal for int()")
        ELSE IF ~isNone /\ ~qual.ok
        THEN Raised("ValueError", "could not convert string to float")
        ELSE IF Len(fields) < 9
        THEN Raised("IndexError", "list index out of range")
        ELSE Variant(Item(fields, 0), pos.val, Item(fields, 2), Item(fields, 3),
                     Item(fields, 4), IF isNone THEN None ELSE qual.val,
                     Item(fields, 6), Split(Item(fields, 7), ";"),
                     Split(Item(fields, 8), ":"), From(fields, 9))

\* faulty variant: the name column is looked for one column too far (len(fields) > 4)
BEDReader_parse_line_NameOffByOne(line) ==
    LET fields     == Split(line, TAB)
        name_field == IF Len(fields) > 4 THEN Item(fields, 3) ELSE <<".">>
        start      == ParseInt(Item(fields, 1))
        end        == ParseInt(Item(fields, 2))
    IN  IF Len(fields) < 3
        THEN Raised("ValueError", "Invalid BED line: expected 3+ fields")
        ELSE IF ~start.ok \/ ~end.ok
        THEN Raised("ValueError", "invalid literal for int()")
        ELSE Region(Item(fields, 0), start.val, end.val, name_field)

\* faulty variant: an end column that is no integer is replaced by 0 instead of raising
BEDReader_parse_line_EndDefaulted(line) ==
    LET fields     == Split(line, TAB)
        name_field == IF Len(fields) > 3 THEN Item(fields, 3) ELSE <<".">>
        start      == ParseInt(Item(fields, 1))
        end        == ParseInt(Item(fields, 2))
    IN  IF Len(fields) < 3
        THEN Raised("ValueError", "Invalid BED line: expected 3+ fields")
        ELSE IF ~start.ok
        THEN Raised("ValueError", "invalid literal for int()")
        ELSE Region(Item(fields, 0), start.val, IF end.ok THEN end.val ELSE 0, name_field)

\* BEDReader._parse_line: called with the stripped line
BEDReader_parse_line(line) ==
    LET fields     == Split(line, TAB)
        name_field == IF Len(fields) > 3 THEN Item(fields, 3) ELSE <<".">>
        start      == ParseInt(Item(fields, 1))
        end        == ParseInt(Item(fields, 2))
    IN  IF Len(fields) < 3
        THEN Raised("ValueError", "Invalid BED line: expected 3+ fields")
        ELSE IF ~start.ok \/ ~end.ok
        THEN Raised("ValueError", "invalid literal for int()")
        ELSE Region(Item(fields, 0), start.val, end.val, name_field)

\* the line classification of VCFReader.__iter__ (on the raw line)
VCFReader_skips(line) == StartsWith(line, <<"#">>) \/ Strip(line) = <<>>

\* the line classification of BEDReader.__iter__ (on the stripped line)
BEDReader_skips(line) ==
    \/ line = <<>>
    \/ StartsWith(line, <<"#">>)
    \/ StartsWith(line, <<"t", "r", "a", "c", "k">>)

(***************************************************************************)
(* Inputs: field tokens, lines and constructor arguments                   *)
(***************************************************************************)
chr1 == <<"c", "h", "r", "1">>

PASS == <<"P", "A", "S", "S">>

geneA == <<"g", "e", "n", "e", "A">>

\* every str of length at most n over the characters cs
StringsUpTo(cs, n) == UNION {[1..k -> cs] : k \in 0..n}

\* tokens for the integer columns (BED start / end, VCF POS)
IntTokens == {<<"1", "0", "0">>, <<"2", "0", "0">>, <<"-", "5">>, <<"+", "7">>, <<" ", "8">>, <<"1", "_", "0">>, <<"x">>, <<>>, <<"1", ".", "5">>}

PosTokens == {<<"1", "0", "0">>, <<"0">>, <<"-", "1">>, <<"x">>, <<" ", "7">>, <<>>}

\* tokens for the VCF QUAL column
QualTokens == {<<".">>, <<"5", "0", ".", "0">>, <<"-", "1">>, <<"n", "a", "n">>, <<"a", "b", "c">>, <<"-", "0", ".", "0">>}

RefTokens == {<<"A">>, <<"a">>}

AltTokens == {<<"G", ",", "T">>, <<"T">>, <<"g">>, <<"X">>}

InfoTokens == {<<".">>, <<"D", "P", "=", "1", ";", "A", "F", "=", "0", ".", "5">>}

\* what follows the eight mandatory VCF columns: nothing, FORMAT, FORMAT and samples
VcfTails == {<<>>, <<<<"G", "T">>>>, <<<<"G", "T", ":", "D", "P">>, <<"0", "/", "1", ":", "9">>>>, <<<<"G", "T">>, <<"0", "/", "1">>, <<"1", "/", "1">>>>}

\* what follows the three mandatory BED columns
BedTails == {<<>>, <<geneA>>, <<geneA, <<"0">>, <<"+">>>>, <<<<>>, <<"0">>>>, <<<<" ", "g">>, <<>>>>}

\* raw lines as read from a file: tab-joined columns and the line terminator
RawLine(fields) == Join(fields, TAB) \o <<NL>>

VcfDataLines ==
    {RawLine(<<chr1, p, <<".">>, r, a, qv, PASS, i>> \o t) :
        p \in PosTokens, r \in RefTokens, a \in AltTokens, qv \in QualTokens,
        i \in InfoTokens, t \in VcfTails}

VcfOddLines ==
    {RawLine(<<chr1>>),
     RawLine(<<chr1, <<"1">>, <<".">>, <<"A">>, <<"T">>, <<".">>, PASS>>),
     RawLine(<<<<" ", "#", "c">>>>),
     <<" ">> \o RawLine(<<chr1, <<"1">>, <<".">>, <<"A">>, <<"T">>, <<".">>, PASS, <<".">>, <<"G", "T">>>>),
     RawLine(<<chr1, <<"1">>, <<".">>, <<"A">>, <<"T">>, <<".">>, PASS, <<".">>, <<>>>>)}

VcfSkipLines == {<<NL>>, <<" ", TAB, NL>>, RawLine(<<<<"#", "#", "x">>>>), RawLine(<<<<"#", "C", "H", "R", "O", "M">>, <<"P">>>>)}

BedDataLines ==
    {RawLine(<<chr1, b, e>> \o t) : b \in IntTokens, e \in IntTokens, t \in BedTails}

BedOddLines ==
    {RawLine(<<chr1>>), RawLine(<<chr1, <<"1">>>>), RawLine(<<<<>>, <<"1">>, <<"2">>>>),
     <<" ">> \o RawLine(<<chr1, <<"1">>, <<"2">>, geneA>>),
     Join(<<chr1, <<"1">>, <<"2">>>>, TAB)}

BedSkipLines ==
    {<<NL>>, <<" ", NL>>, RawLine(<<<<"#", "#", "x">>>>), RawLine(<<<<" ", "#", "y">>>>),
     RawLine(<<<<"t", "r", "a", "c", "k">>>>), RawLine(<<<<"t", "r", "a", "c", "k", "s">>, <<"1">>, <<"2">>>>)}

\* the lines VCFReader.__iter__ hands to _parse_line: raw and not skipped
VcfParseInputs == {l \in VcfDataLines \cup VcfOddLines \cup VcfSkipLines : ~VCFReader_skips(l)}

\* the lines BEDReader.__iter__ hands to _parse_line: stripped and not skipped
BedParseInputs ==
    {l \in {Strip(r) : r \in BedDataLines \cup BedOddLines \cup BedSkipLines} :
        ~BEDReader_skips(l)}

PosValues == {-1, 0, 1, 100}

QualValues == {None, NaN, Inf(TRUE), Fin(TRUE, 10, 0), Fin(TRUE, 0, 0), Fin(FALSE, 50, 0)}

RefValues == {<<"A">>, <<"a">>, <<"N", ".">>, <<"A", "Z">>}

AltValues == StringsUpTo({"G", ",", "T", "t", "x"}, MaxAlleleLen)

VariantArgs ==
    [chrom : {chr1}, pos : PosValues, id : {<<".">>}, ref : RefValues, alt : AltValues,
     qual : QualValues, filter : {PASS}, info : {<<>>}, format_fields : {<<>>},
     samples : {<<>>}]

(***************************************************************************)
(* Files, readers, generators                                              *)
(*                                                                         *)
(* fs       path |-> the file's raw lines (a path outside DOMAIN fs does   *)
(*          not exist)                                                     *)
(* readers  the reader objects constructed so far: [kind, filepath]        *)
(* gens     the generator objects __iter__ has returned: the reader, the   *)
(*          state, the handle its frame holds (0: none), the records it    *)
(*          has yielded, the exception that ended it                       *)
(* handles  every file object open() has returned: path, lines consumed,   *)
(*          open or closed                                                 *)
(* call     a direct call of Variant(...) or of a _parse_line method: the  *)
(*          function, its argument, and what it returned or raised         *)
(***************************************************************************)
Kinds == {"VCFReader", "BEDReader"}

\* the files of the directory; any other path, such as "missing", does not exist
PathNames == {"a.vcf", "b.bed"}

Finished == {"exhausted", "failed", "closed", "finalized"}

\* VCFReader.__init__ / BEDReader.__init__: the path is stored, nothing is opened
NewReader(kind, filepath) == [kind |-> kind, filepath |-> filepath]

\* calling a generator function runs none of its body
NewGenerator(r) == [reader |-> r, state |-> "created", fd |-> 0, out |-> <<>>, exc |-> "none"]

\* open(self.filepath, 'r'): a new file object at the start of the file
Open(hs, path) == Append(hs, [path |-> path, pos |-> 0, open |-> TRUE])

\* faulty variant: the file is opened without a with block and never closed
WithExit_Leak(hs, fd) == hs

\* leaving the with block, by any route, closes the file object
WithExit(hs, fd) == [hs EXCEPT ![fd].open = FALSE]

\* faulty variant: a line whose parse raises is skipped and the loop goes on
RECURSIVE VCFReader_iter_SkipInvalid(_, _)
VCFReader_iter_SkipInvalid(lines, pos) ==
    IF pos >= Len(lines)
    THEN [kind |-> "stop", pos |-> pos, res |-> Returned(<<>>)]
    ELSE IF VCFReader_skips(lines[pos + 1])
    THEN VCFReader_iter_SkipInvalid(lines, pos + 1)
    ELSE IF VCFReader_parse_line(lines[pos + 1]).exc # "none"
    THEN VCFReader_iter_SkipInvalid(lines, pos + 1)
    ELSE [kind |-> "yield", pos |-> pos + 1, res |-> VCFReader_parse_line(lines[pos + 1])]

\* The body of VCFReader.__iter__ from the line at 0-based index pos up to the
\* next yield, the exception that leaves it, or the end of the file.
RECURSIVE VCFReader_iter(_, _)
VCFReader_iter(lines, pos) ==
    IF pos >= Len(lines)
    THEN [kind |-> "stop", pos |-> pos, res |-> Returned(<<>>)]
    ELSE LET line == lines[pos + 1]
         IN  IF VCFReader_skips(line)
             THEN VCFReader_iter(lines, pos + 1)
             ELSE LET res == VCFReader_parse_line(line)
                  IN  [kind |-> IF res.exc = "none" THEN "yield" ELSE "raise",
                       pos |-> pos + 1, res |-> res]

\* The body of BEDReader.__iter__, likewise; the line is stripped first.
RECURSIVE BEDReader_iter(_, _)
BEDReader_iter(lines, pos) ==
    IF pos >= Len(lines)
    THEN [kind |-> "stop", pos |-> pos, res |-> Returned(<<>>)]
    ELSE LET line == Strip(lines[pos + 1])
         IN  IF BEDReader_skips(line)
             THEN BEDReader_iter(lines, pos + 1)
             ELSE LET res == BEDReader_parse_line(line)
                  IN  [kind |-> IF res.exc = "none" THEN "yield" ELSE "raise",
                       pos |-> pos + 1, res |-> res]

ReaderIter(kind, lines, pos) ==
    IF kind = "VCFReader" THEN VCFReader_iter(lines, pos) ELSE BEDReader_iter(lines, pos)

\* VCFReader(path) / BEDReader(path)
Construct(kind, filepath) ==
    /\ Len(readers) < MaxReaders
    /\ readers' = Append(readers, NewReader(kind, filepath))
    /\ UNCHANGED <<fs, gens, handles, call>>

\* faulty variant: __iter__ opens the file when it is called, not at the first next()
Iter_EagerOpen(r, max) ==
    /\ Len(gens) < max
    /\ IF readers[r].filepath \in DOMAIN fs
       THEN /\ gens' = Append(gens, [NewGenerator(r) EXCEPT !.fd = Len(handles) + 1])
            /\ handles' = Open(handles, readers[r].filepath)
       ELSE /\ gens' = Append(gens, NewGenerator(r))
            /\ handles' = handles
    /\ UNCHANGED <<fs, readers, call>>

\* iter(reader): at most max generators are created
Iter(r, max) ==
    /\ Len(gens) < max
    /\ gens' = Append(gens, NewGenerator(r))
    /\ UNCHANGED <<fs, readers, handles, call>>

\* the generator g runs with its handle fd, in the handle table hs, to its next
\* yield, or leaves the with block by an exception or by the end of the file
Resume(g, fd, hs) ==
    \E step \in {ReaderIter(readers[gens[g].reader].kind,
                            fs[readers[gens[g].reader].filepath], hs[fd].pos)} :
        \/ /\ step.kind = "yield"
           /\ gens' = [gens EXCEPT ![g].state = "suspended", ![g].fd = fd,
                                   ![g].out = Append(@, step.res.val)]
           /\ handles' = [hs EXCEPT ![fd].pos = step.pos]
        \/ /\ step.kind = "raise"
           /\ gens' = [gens EXCEPT ![g].state = "failed", ![g].fd = fd,
                                   ![g].exc = step.res.exc]
           /\ handles' = WithExit([hs EXCEPT ![fd].pos = step.pos], fd)
        \/ /\ step.kind = "stop"
           /\ gens' = [gens EXCEPT ![g].state = "exhausted", ![g].fd = fd]
           /\ handles' = WithExit([hs EXCEPT ![fd].pos = step.pos], fd)

\* next(g)
NextElem(g) ==
    /\ \/ /\ gens[g].state = "created"
          /\ readers[gens[g].reader].filepath \notin DOMAIN fs
          /\ gens' = [gens EXCEPT ![g].state = "failed", ![g].exc = "FileNotFoundError"]
          /\ handles' = handles
       \/ /\ gens[g].state = "created"
          /\ readers[gens[g].reader].filepath \in DOMAIN fs
          /\ Resume(g, Len(handles) + 1, Open(handles, readers[gens[g].reader].filepath))
       \/ /\ gens[g].state = "suspended"
          /\ Resume(g, gens[g].fd, handles)
       \/ /\ gens[g].state \in Finished
          /\ UNCHANGED <<gens, handles>>
    /\ UNCHANGED <<fs, readers, call>>

\* g.close(): GeneratorExit is raised at the yield a suspended generator waits
\* at, which leaves the with block; a generator never started just ends
Close(g) ==
    /\ \/ /\ gens[g].state = "created"
          /\ gens' = [gens EXCEPT ![g].state = "closed"]
          /\ handles' = handles
       \/ /\ gens[g].state = "suspended"
          /\ gens' = [gens EXCEPT ![g].state = "closed"]
          /\ handles' = WithExit(handles, gens[g].fd)
       \/ /\ gens[g].state \in Finished
          /\ UNCHANGED <<gens, handles>>
    /\ UNCHANGED <<fs, readers, call>>

\* break in the body of "for record in reader": the loop held the only
\* reference to the generator, which is finalized (closed) as the loop is left
Break(g) ==
    /\ gens[g].state = "suspended"
    /\ gens' = [gens EXCEPT ![g].state = "finalized"]
    /\ handles' = WithExit(handles, gens[g].fd)
    /\ UNCHANGED <<fs, readers, call>>

(***************************************************************************)
(* One reader over one file (Spec), and several readers over the files of  *)
(* a directory (SpecShared)                                                *)
(***************************************************************************)
\* the concrete VCF line of the specification's scenario: 8 columns
VcfLine8 == RawLine(<<<<"c", "h", "r", "1">>, <<"1", "0", "0">>, <<".">>, <<"A">>, <<"G", ",", "T">>, <<"5", "0", ".", "0">>, <<"P", "A", "S", "S">>, <<".">>>>)

VcfLine9 == RawLine(<<<<"c", "h", "r", "1">>, <<"7">>, <<".">>, <<"a">>, <<"t">>, <<".">>, <<"P", "A", "S", "S">>, <<"D", "P", "=", "1", ";", "A", "F", "=", "0", ".", "5">>, <<"G", "T">>>>)

VcfLine11 == RawLine(<<<<"c", "h", "r", "1">>, <<"1", "0", "0">>, <<".">>, <<"A">>, <<"G", ",", "T">>, <<"5", "0", ".", "0">>, <<"P", "A", "S", "S">>, <<".">>, <<"G", "T", ":", "D", "P">>, <<"0", "/", "1", ":", "9">>, <<"1", "/", "1", ":", "3">>>>)

VcfLineNegQual == RawLine(<<<<"c", "h", "r", "1">>, <<"1", "0", "0">>, <<".">>, <<"A">>, <<"T">>, <<"-", "1">>, <<"P", "A", "S", "S">>, <<".">>, <<"G", "T">>>>)

VcfLineNanQual == RawLine(<<<<"c", "h", "r", "1">>, <<"1", "0", "0">>, <<".">>, <<"A">>, <<"T">>, <<"n", "a", "n">>, <<"P", "A", "S", "S">>, <<".">>, <<"G", "T">>>>)

VcfLineBadBase == RawLine(<<<<"c", "h", "r", "1">>, <<"1", "0", "0">>, <<".">>, <<"A">>, <<"X">>, <<"5", "0">>, <<"P", "A", "S", "S">>, <<".">>, <<"G", "T">>>>)

VcfLineShort == RawLine(<<<<"c", "h", "r", "1">>, <<"1", "0", "0">>, <<".">>, <<"A">>, <<"T">>>>)

VcfComment == RawLine(<<<<"#", "#", "x">>>>)

VcfFileLines ==
    {VcfComment, <<" ", NL>>, VcfLine8, VcfLine9, VcfLine11, VcfLineNegQual,
     VcfLineNanQual, VcfLineBadBase, VcfLineShort}

\* the concrete BED line of the test
BedLine4 == RawLine(<<<<"c", "h", "r", "1">>, <<"1", "0", "0">>, <<"2", "0", "0">>, <<"g", "e", "n", "e", "A">>>>)

BedLine3 == RawLine(<<<<"c", "h", "r", "1">>, <<"7">>, <<"9">>>>)

BedLineBadEnd == RawLine(<<<<"c", "h", "r", "1">>, <<"1", "0", "0">>, <<"x">>>>)

BedLineShort == RawLine(<<<<"c", "h", "r", "1">>, <<"1", "0", "0">>>>)

BedTrack == RawLine(<<<<"t", "r", "a", "c", "k", " ", "n">>>>)

BedComment == <<" ">> \o RawLine(<<<<"#", "c">>>>)

BedFileLines ==
    {BedComment, BedTrack, <<NL>>, BedLine4, BedLine3, BedLineBadEnd, BedLineShort}

\* no direct call is in progress
NoCall == [fn |-> "none", arg |-> <<>>, done |-> TRUE, res |-> Returned(<<>>)]

\* a direct call about to be made
Pending(fn, arg) == [fn |-> fn, arg |-> arg, done |-> FALSE, res |-> Returned(<<>>)]

\* an empty directory
NoFiles == [p \in {} |-> <<>>]

\* every file of at most n lines drawn from pool
FilesOf(pool, n) == UNION {[1..k -> pool] : k \in 0..n}

NoWork ==
    /\ gens = <<>>
    /\ handles = <<>>
    /\ call = NoCall

\* a reader has been constructed over a file of its format, or over no file
Init ==
    /\ NoWork
    /\ \/ \E f \in FilesOf(VcfFileLines, MaxLines) :
            /\ fs = [p \in {"a.vcf"} |-> f]
            /\ readers = <<NewReader("VCFReader", "a.vcf")>>
       \/ \E f \in FilesOf(BedFileLines, MaxLines) :
            /\ fs = [p \in {"b.bed"} |-> f]
            /\ readers = <<NewReader("BEDReader", "b.bed")>>
       \/ \E k \in Kinds :
            /\ fs = NoFiles
            /\ readers = <<NewReader(k, "missing")>>

Next ==
    \/ \E r \in 1..Len(readers) : Iter(r, RunIters)
    \/ \E g \in 1..Len(gens) : NextElem(g)
    \/ \E g \in 1..Len(gens) : Close(g)
    \/ \E g \in 1..Len(gens) : Break(g)

Spec == Init /\ [][Next]_vars

\* a directory of two short files; no reader yet
InitShared ==
    /\ NoWork
    /\ readers = <<>>
    /\ fs = [p \in {"a.vcf", "b.bed"} |->
                IF p = "a.vcf" THEN <<VcfComment, VcfLine9>>
                ELSE <<BedLine4, BedLineBadEnd>>]

NextShared ==
    \/ \E k \in Kinds, p \in PathNames : Construct(k, p)
    \/ \E r \in 1..Len(readers) : Iter(r, MaxIters)
    \/ \E g \in 1..Len(gens) : NextElem(g)
    \/ \E g \in 1..Len(gens) : Close(g)
    \/ \E g \in 1..Len(gens) : Break(g)

SpecShared == InitShared /\ [][NextShared]_vars

(***************************************************************************)
(* Direct calls of the constructor and of the two line parsers             *)
(***************************************************************************)
InitCall ==
    /\ fs = NoFiles
    /\ readers = <<>>
    /\ gens = <<>>
    /\ handles = <<>>
    /\ \/ \E a \in VariantArgs : call = Pending("Variant", a)
       \/ \E l \in VcfParseInputs : call = Pending("VCFReader._parse_line", l)
       \/ \E l \in BedParseInputs : call = Pending("BEDReader._parse_line", l)

CallVariant ==
    /\ call.fn = "Variant"
    /\ ~call.done
    /\ call' = [call EXCEPT !.done = TRUE,
                            !.res = Variant(call.arg.chrom, call.arg.pos, call.arg.id,
                                            call.arg.ref, call.arg.alt, call.arg.qual,
                                            call.arg.filter, call.arg.info,
                                            call.arg.format_fields, call.arg.samples)]
    /\ UNCHANGED <<fs, readers, gens, handles>>

CallVCFParseLine ==
    /\ call.fn = "VCFReader._parse_line"
    /\ ~call.done
    /\ call' = [call EXCEPT !.done = TRUE, !.res = VCFReader_parse_line(call.arg)]
    /\ UNCHANGED <<fs, readers, gens, handles>>

CallBEDParseLine ==
    /\ call.fn = "BEDReader._parse_line"
    /\ ~call.done
    /\ call' = [call EXCEPT !.done = TRUE, !.res = BEDReader_parse_line(call.arg)]
    /\ UNCHANGED <<fs, readers, gens, handles>>

NextCall == CallVariant \/ CallVCFParseLine \/ CallBEDParseLine

SpecCall == InitCall /\ [][NextCall]_vars

(***************************************************************************)
(* Vocabulary of the claims, stated apart from the program's definitions   *)
(***************************************************************************)
\* the allowed base alphabet, case-insensitively
AllowedBaseChars == {"A", "C", "G", "T", "N", ".", ",", "a", "c", "g", "t", "n"}

OverAlphabet(s) == \A i \in 1..Len(s) : s[i] \in AllowedBaseChars

VariantDone == call.fn = "Variant" /\ call.done

VCFParseDone == call.fn = "VCFReader._parse_line" /\ call.done

BEDParseDone == call.fn = "BEDReader._parse_line" /\ call.done

\* a line without its line terminator
Chomp(line) ==
    IF Len(line) >= 1 /\ line[Len(line)] = NL THEN SubSeq(line, 1, Len(line) - 1) ELSE line

\* the tab-separated columns of a line of the file, as the format defines them
Columns(line) == Split(Chomp(line), TAB)

\* a VCF line whose first eight columns are valid: integer POS >= 1, QUAL
\* "." or a number >= 0, REF and ALT over the base alphabet
VcfColumnsValid(line) ==
    LET c == Columns(line)
    IN  /\ Len(c) >= 8
        /\ ParseInt(c[2]).ok /\ ParseInt(c[2]).val >= 1
        /\ c[6] = <<".">> \/ (ParseFloat(c[6]).ok /\ FloatGeZero(ParseFloat(c[6]).val))
        /\ OverAlphabet(c[4] \o c[5])

(***************************************************************************)
(* C1: constructing a Variant raises ValueError and yields no object       *)
(* whenever qual is present and negative, or pos < 1, or ref + alt holds   *)
(* a character outside the base alphabet, whatever the other fields are.   *)
(***************************************************************************)
C1_InvalidVariantRejected ==
    (/\ VariantDone
     /\ \/ (call.arg.qual # None /\ FloatLtZero(call.arg.qual))
        \/ call.arg.pos < 1
        \/ ~OverAlphabet(call.arg.ref \o call.arg.alt))
    => (call.res.exc = "ValueError" /\ call.res.val = <<>>)

\* the test's case: qual = -10.0 with every other field valid
C1_Witness ==
    /\ VariantDone
    /\ call.arg.qual = Fin(TRUE, 10, 0)
    /\ call.arg.pos = 100
    /\ call.arg.ref = <<"A">>
    /\ call.arg.alt = <<"T">>
    /\ call.res.exc = "ValueError"
    /\ call.res.msg = "Quality must not be negative"

(***************************************************************************)
(* C2: parsing a VCF line of exactly 8 valid columns returns a Variant     *)
(* with empty format_fields and empty samples, without raising.            *)
(***************************************************************************)
C2_EightColumnsParse ==
    (/\ VCFParseDone
     /\ Len(Columns(call.arg)) = 8
     /\ VcfColumnsValid(call.arg))
    => (/\ call.res.exc = "none"
        /\ call.res.val.format_fields = <<>>
        /\ call.res.val.samples = <<>>)

(***************************************************************************)
(* C8: constructing a Variant whose alt is a comma-separated list, with    *)
(* otherwise valid fields, succeeds and keeps alt as given.                *)
(***************************************************************************)
C8_MultiAllelicAccepted ==
    (/\ VariantDone
     /\ \E i \in 1..Len(call.arg.alt) : call.arg.alt[i] = ","
     /\ OverAlphabet(call.arg.alt)
     /\ OverAlphabet(call.arg.ref)
     /\ call.arg.pos >= 1
     /\ (call.arg.qual = None \/ FloatGeZero(call.arg.qual)))
    => (call.res.exc = "none" /\ call.res.val.alt = call.arg.alt)

\* the test's case: alt = "G,T", qual = 50.0, pos = 100, ref = "A"
C8_Witness ==
    /\ VariantDone
    /\ call.arg.alt = <<"G", ",", "T">>
    /\ call.arg.qual = Fin(FALSE, 50, 0)
    /\ call.arg.pos = 100
    /\ call.arg.ref = <<"A">>
    /\ call.res.exc = "none"
    /\ call.res.val.alt = <<"G", ",", "T">>

(***************************************************************************)
(* C5: a BED line of 3 columns parses to a Region named "."; of 4 or more  *)
(* columns, to a Region named by the 4th column; chrom is column 0, start  *)
(* and end are the integers of columns 1 and 2; later columns change       *)
(* nothing and raise nothing.                                              *)
(***************************************************************************)
C5_BedFieldMapping ==
    LET c == Split(call.arg, TAB)
    IN  (/\ BEDParseDone
         /\ Len(c) >= 3
         /\ ParseInt(c[2]).ok
         /\ ParseInt(c[3]).ok)
        => (/\ call.res.exc = "none"
            /\ call.res.val = [chrom |-> c[1],
                               start |-> ParseInt(c[2]).val,
                               end   |-> ParseInt(c[3]).val,
                               name  |-> IF Len(c) = 3 THEN <<".">> ELSE c[4]]
            /\ (call.arg = Join(<<chr1, <<"1", "0", "0">>, <<"2", "0", "0">>, geneA>>, TAB)
                => call.res.val = [chrom |-> chr1, start |-> 100, end |-> 200,
                                   name |-> geneA]))

\* a 6-column line: the name is column 3 and columns 4, 5 are ignored
C5_Witness ==
    /\ BEDParseDone
    /\ call.arg = Join(<<chr1, <<"1", "0", "0">>, <<"2", "0", "0">>, geneA, <<"0">>, <<"+">>>>, TAB)
    /\ call.res.exc = "none"
    /\ call.res.val.name = geneA
    /\ call.res.val.start = 100

(***************************************************************************)
(* C9: a BED line of fewer than 3 columns, or whose start or end column    *)
(* is no integer literal, makes the parse raise (ValueError); no Region.   *)
(***************************************************************************)
C9_BedMalformedRejected ==
    LET c == Split(call.arg, TAB)
    IN  (/\ BEDParseDone
         /\ \/ Len(c) < 3
            \/ ~ParseInt(c[2]).ok
            \/ ~ParseInt(c[3]).ok)
        => (call.res.exc = "ValueError" /\ call.res.val = <<>>)

\* a valid start followed by a non-integer end
C9_Witness ==
    /\ BEDParseDone
    /\ call.arg = Join(<<chr1, <<"1", "0", "0">>, <<"1", ".", "5">>>>, TAB)
    /\ call.res.exc = "ValueError"
    /\ call.res.msg = "invalid literal for int()"

(***************************************************************************)
(* Vocabulary of the iteration claims                                      *)
(***************************************************************************)
Gens == 1..Len(gens)

KindOf(g) == readers[gens[g].reader].kind

PathOf(g) == readers[gens[g].reader].filepath

\* the lines of the file generator g reads (it holds a handle, so the file exists)
LinesOf(g) == fs[PathOf(g)]

\* lines consumed through the handle of g
ConsumedBy(g) == handles[gens[g].fd].pos

\* the lines that contribute nothing: empty, '#'-prefixed, and for BED 'track'-prefixed
IsSkipLine(kind, line) ==
    IF kind = "VCFReader"
    THEN Strip(line) = <<>> \/ (Len(line) >= 1 /\ line[1] = "#")
    ELSE \/ Strip(line) = <<>>
         \/ Strip(line)[1] = "#"
         \/ (Len(Strip(line)) >= 5 /\ SubSeq(Strip(line), 1, 5) = <<"t", "r", "a", "c", "k">>)

\* what parsing a line gives
ParseLine(kind, line) ==
    IF kind = "VCFReader" THEN VCFReader_parse_line(line)
    ELSE BEDReader_parse_line(Strip(line))

\* IsSkipLine and ParseLine tabulated once for the lines the files are made of
KnownLines == VcfFileLines \cup BedFileLines

SkipTable == [k \in Kinds |-> [l \in KnownLines |-> IsSkipLine(k, l)]]

ParseTable == [k \in Kinds |-> [l \in KnownLines |-> ParseLine(k, l)]]

Skipped(kind, line) ==
    IF line \in KnownLines THEN SkipTable[kind][line] ELSE IsSkipLine(kind, line)

\* the indices of the data lines among the first n lines
DataIndices(kind, lines, n) == {i \in 1..n : ~Skipped(kind, lines[i])}

\* what parsing line i gives
ParseOf(kind, lines, i) ==
    IF lines[i] \in KnownLines THEN ParseTable[kind][lines[i]] ELSE ParseLine(kind, lines[i])

\* the index of the first data line whose parse raises; 0 when there is none
FirstBad(kind, lines) ==
    LET bad == {i \in DataIndices(kind, lines, Len(lines)) : ParseOf(kind, lines, i).exc # "none"}
    IN  IF bad = {} THEN 0 ELSE CHOOSE i \in bad : \A j \in bad : i <= j

\* the k-th smallest element of a set of indices
Nth(S, k) == CHOOSE i \in S : Cardinality({j \in S : j < i}) = k - 1

\* the records of the data lines among the first n lines, in file order
RecordsOf(kind, lines, n) ==
    [k \in 1..Cardinality(DataIndices(kind, lines, n)) |->
        ParseOf(kind, lines, Nth(DataIndices(kind, lines, n), k)).val]

\* a BED line whose columns are valid: at least 3, integer start and end
BedColumnsValid(line) ==
    LET c == Split(Strip(line), TAB)
    IN  Len(c) >= 3 /\ ParseInt(c[2]).ok /\ ParseInt(c[3]).ok

LineValid(kind, line) ==
    IF kind = "VCFReader" THEN VcfColumnsValid(line) ELSE BedColumnsValid(line)

(***************************************************************************)
(* C3: however an iteration ends (exhaustion, close or break by the        *)
(* consumer, an error raised mid-iteration) its file handle is closed;     *)
(* only a generator suspended at a yield holds an open handle.             *)
(***************************************************************************)
C3_HandleReleased ==
    /\ \A g \in Gens :
          (gens[g].state \in Finished /\ gens[g].fd # 0) => ~handles[gens[g].fd].open
    /\ \A h \in 1..Len(handles) :
          handles[h].open => \E g \in Gens : gens[g].fd = h /\ gens[g].state = "suspended"

\* the consumer broke out of the loop after the first of several records
C3_Witness ==
    \E g \in Gens :
        /\ gens[g].state = "finalized"
        /\ Len(gens[g].out) = 1
        /\ ConsumedBy(g) < Len(LinesOf(g))
        /\ ~handles[gens[g].fd].open

(***************************************************************************)
(* C4: over a file whose data lines are all valid, a full iteration ends   *)
(* without error and yields one record per data line, in file order.       *)
(***************************************************************************)
C4_OneRecordPerDataLine ==
    \A g \in Gens :
        (/\ gens[g].state \in {"exhausted", "failed"}
         /\ gens[g].fd # 0
         /\ \A i \in DataIndices(KindOf(g), LinesOf(g), Len(LinesOf(g))) :
                LineValid(KindOf(g), LinesOf(g)[i]))
        => (/\ gens[g].state = "exhausted"
            /\ Len(gens[g].out) =
                   Cardinality(DataIndices(KindOf(g), LinesOf(g), Len(LinesOf(g))))
            /\ \A k \in 1..Len(gens[g].out) :
                   gens[g].out[k].chrom =
                       Split(Strip(LinesOf(g)[Nth(DataIndices(KindOf(g), LinesOf(g),
                                                              Len(LinesOf(g))), k)]), TAB)[1])

(***************************************************************************)
(* C6: an iteration never reads past the first data line whose parse       *)
(* raises; having read it, the generator has failed with that exception    *)
(* and has delivered exactly the records of the data lines before it.      *)
(***************************************************************************)
C6_ErrorEndsIteration ==
    \A g \in Gens :
        gens[g].fd # 0
        => LET bad == FirstBad(KindOf(g), LinesOf(g))
           IN  bad # 0
               => (/\ ConsumedBy(g) <= bad
                   /\ (ConsumedBy(g) = bad
                       => (/\ gens[g].state = "failed"
                           /\ gens[g].exc = ParseOf(KindOf(g), LinesOf(g), bad).exc
                           /\ gens[g].out = RecordsOf(KindOf(g), LinesOf(g), bad - 1))))

\* a record, then a failing line, then a line that would have parsed
C6_Witness ==
    \E g \in Gens :
        /\ gens[g].state = "failed"
        /\ Len(gens[g].out) = 1
        /\ ConsumedBy(g) = 2
        /\ Len(LinesOf(g)) = 3
        /\ ~Skipped(KindOf(g), LinesOf(g)[3])
        /\ ParseOf(KindOf(g), LinesOf(g), 3).exc = "none"

(***************************************************************************)
(* C7: every Variant a VCFReader iteration has yielded has pos >= 1, qual  *)
(* absent or >= 0, and ref + alt over the base alphabet.                   *)
(***************************************************************************)
C7_YieldedVariantsValid ==
    \A g \in Gens :
        KindOf(g) = "VCFReader"
        => \A k \in 1..Len(gens[g].out) :
              /\ gens[g].out[k].pos >= 1
              /\ (gens[g].out[k].qual = None \/ FloatGeZero(gens[g].out[k].qual))
              /\ OverAlphabet(gens[g].out[k].ref \o gens[g].out[k].alt)

(***************************************************************************)
(* C10, as claimed: a reader holds no open handle while none of its        *)
(* iterations is under way and exactly one while one is; no handle is      *)
(* shared.                                                                 *)
(***************************************************************************)
\* the open handles held by the generators of reader r
OpenHandlesOf(r) ==
    {h \in 1..Len(handles) :
        handles[h].open /\ \E g \in Gens : gens[g].reader = r /\ gens[g].fd = h}

\* the iterations of reader r that have started and have not ended
ActiveItersOf(r) == {g \in Gens : gens[g].reader = r /\ gens[g].state = "suspended"}

NoHandleShared == \A g1, g2 \in Gens : (g1 # g2 /\ gens[g1].fd # 0) => gens[g1].fd # gens[g2].fd

C10_OneHandlePerReader ==
    /\ \A r \in 1..Len(readers) :
          /\ ActiveItersOf(r) = {} => OpenHandlesOf(r) = {}
          /\ ActiveItersOf(r) # {} => Cardinality(OpenHandlesOf(r)) = 1
    /\ NoHandleShared

(***************************************************************************)
(* C10, amended: a reader holds no open handle until the first element of  *)
(* one of its iterations is requested; each iteration that has started     *)
(* and not ended holds exactly one open handle of its own, on the reader's *)
(* path, so a reader holds as many open handles as it has such iterations; *)
(* no handle is shared between iterations or readers.                      *)
(***************************************************************************)
C10_OneHandlePerIteration ==
    /\ \A r \in 1..Len(readers) :
          Cardinality(OpenHandlesOf(r)) = Cardinality(ActiveItersOf(r))
    /\ \A g \in Gens :
          /\ gens[g].state = "created" => gens[g].fd = 0
          /\ gens[g].state = "suspended"
             => (/\ gens[g].fd # 0
                 /\ handles[gens[g].fd].open
                 /\ handles[gens[g].fd].path = PathOf(g))
    /\ \A h \in 1..Len(handles) : handles[h].open => \E g \in Gens : gens[g].fd = h
    /\ NoHandleShared

\* two iterations of one reader under way, a second reader constructed and idle
C10_Witness ==
    /\ Len(readers) = 2
    /\ Cardinality(ActiveItersOf(1)) = 2
    /\ Cardinality(OpenHandlesOf(1)) = 2
    /\ OpenHandlesOf(2) = {}

====
